---- MODULE Spec2Model ----
(***************************************************************************)
(* Model of the clockify-sdk transport (ConnectionManager.request), of     *)
(* the report pagination loop (ReportManager.get_detailed_all_pages), of   *)
(* the example reporters (duration of an entry, grouping per user, weekly  *)
(* hours compliance) and of the client (Clockify and its managers).        *)
(*                                                                         *)
(* One synchronous caller: it is idle, inside ConnectionManager.request    *)
(* (waiting for the HTTP transport), inside get_detailed_all_pages, or     *)
(* holds the result of a call it has not taken yet.                        *)
(***************************************************************************)
EXTENDS Integers, Sequences, FiniteSets, TLC

\* ------------------------------------------------------------------------
\* Bounds of the model
\* ------------------------------------------------------------------------
\* largest number of time entries the reporting backend holds
MaxEntries == 3
\* largest page_size get_detailed_all_pages is called with
MaxPageSize == 3

\* ------------------------------------------------------------------------
\* Program constants
\* ------------------------------------------------------------------------
\* ConnectionManager.__init__: self.max_retries = 3
max_retries == 3

\* ------------------------------------------------------------------------
\* Input domains
\* ------------------------------------------------------------------------
ApiKeys == {"key-A", "key-B"}
Methods == {"GET", "POST"}
Urls == {"https://api.clockify.me/api/v1/workspaces", "https://api.clockify.me/api/v1/user"}
Statuses == {200, 204, 400, 401, 403, 404, 429, 500, 503}
Paths == {"workspaces", "user"}
Bodies == {"[]", "[1,2]", ""}
Digits == {"0", "1", "2", "3", "4", "5", "6", "7", "8", "9"}

EmptyDict == [n \in {} |-> ""]
EmptyHeaders == [n \in {} |-> <<>>]

\* the `headers` argument of ConnectionManager.request: None or a dict
HeaderArgs ==
  { [none |-> TRUE, dict |-> EmptyDict],
    [none |-> FALSE, dict |-> EmptyDict],
    [none |-> FALSE, dict |-> [n \in {"X-Api-Key"} |-> "caller-key"]],
    [none |-> FALSE, dict |-> [n \in {"Accept"} |-> "application/json"]],
    [none |-> FALSE, dict |-> [n \in {"Accept", "X-Api-Key"} |->
                                 IF n = "Accept" THEN "application/json" ELSE "caller-key"]] }

\* values of the Retry-After response header, as character sequences
RetryAfterValues == { <<"3", "0">>, <<"7">>, <<"W", "e", "d">> }

\* response headers: with or without a Retry-After header
ResponseHeaders ==
  {EmptyHeaders} \cup { [n \in {"Retry-After"} |-> v] : v \in RetryAfterValues }

\* network-level failures raised while connecting / after connecting
ConnectFailures == {"ConnectError", "ConnectTimeout"}
TransferFailures == {"ReadTimeout", "ReadError", "WriteError"}

\* ------------------------------------------------------------------------
\* Values
\* ------------------------------------------------------------------------
NoMessage == [text |-> "", arg |-> <<>>]
NoExc == [type |-> "", message |-> NoMessage]
NoOutcome == [kind |-> "none", value |-> <<>>, exc |-> NoExc]
NoHeadersArg == [none |-> TRUE, dict |-> EmptyDict]
NoRequest == [method |-> "", url |-> "", headers |-> EmptyDict]
NoResponse == [status |-> 0, headers |-> EmptyHeaders, body |-> ""]
NoBackend == [n |-> 0, cap |-> 1, fail_at |-> 0]

Exc(type, text, arg) == [type |-> type, message |-> [text |-> text, arg |-> arg]]
Raise(e) == [kind |-> "raise", value |-> <<>>, exc |-> e]
Return(v) == [kind |-> "return", value |-> v, exc |-> NoExc]

Min(a, b) == IF a <= b THEN a ELSE b

\* ------------------------------------------------------------------------
\* State
\* ------------------------------------------------------------------------
VARIABLES
  pc,               \* where the caller is
  api_key,          \* ConnectionManager.api_key
  has_workspace_id, \* whether the ReportManager instance has a workspace_id attribute
                    \* (ApiClientBase.__init__ sets none; a caller may assign one)
  headers_arg,      \* the `headers` argument the caller passed to request
  req,              \* the request handed to httpx: method, url, headers
  retries_left,     \* connection retries the HTTP transport has left
  attempts,         \* connection attempts started for the current call
  exchanges,        \* HTTP exchanges (request sent, response received) of the call
  resp,             \* last response received
  net_failures,     \* network-level failures seen during the call
  outcome,          \* what ConnectionManager.request returned / raised
  backend,          \* the reporting backend the aggregator talks to
  page_size,        \* get_detailed_all_pages: page_size
  page,             \* get_detailed_all_pages: page
  all_time_entries, \* get_detailed_all_pages: all_time_entries
  page_requests,    \* page indices for which an HTTP request was sent
  fetch_errors,     \* <<page, exception>> of every failed get_detailed call
  report_bases,     \* base endpoint of every request a report call sent
  report_outcome,   \* what get_detailed_all_pages returned / raised
  entry_arg,        \* the entry handed to _calculate_duration
  duration_out,     \* what ProjectDetailReporter._calculate_duration returned / raised
  analytics_out,    \* what ClockifyAnalytics._calculate_duration returned / raised
  entries_arg,     \* the entries handed to _process_weekly_data / _process_monthly_data
  idx,              \* position of the grouping loop in entries_arg
  team_data,        \* _process_*_data: team_data
  group_out,        \* whether the grouping returned team_data or raised
  minimum_hours_config, \* ProjectDetailReporter.minimum_hours_config
  compliance_args,  \* the arguments of the last _check_hours_compliance call
  compliance_out,   \* what _check_hours_compliance returned / raised
  client_call,      \* the call made on the client: operation, self, arguments, service
  client_sent,      \* the HTTP requests the call sent
  client_out,       \* what the call returned / raised
  main_client       \* the Clockify object of src/main.py, once constructed

vars == <<pc, api_key, has_workspace_id, headers_arg, req, retries_left, attempts, exchanges,
          resp, net_failures, outcome, backend, page_size, page,
          all_time_entries, page_requests, fetch_errors, report_bases, report_outcome,
          entry_arg, duration_out, analytics_out, entries_arg, idx, team_data, group_out,
          minimum_hours_config, compliance_args, compliance_out,
          client_call, client_sent, client_out, main_client>>

transport_vars == <<headers_arg, req, retries_left, attempts, exchanges, resp, net_failures, outcome>>
report_vars == <<backend, page_size, page, all_time_entries, page_requests,
                 fetch_errors, report_bases, report_outcome>>
reporter_vars == <<entry_arg, duration_out, analytics_out, entries_arg, idx, team_data, group_out>>
compliance_vars == <<minimum_hours_config, compliance_args, compliance_out>>
client_vars == <<client_call, client_sent, client_out, main_client>>

\* ------------------------------------------------------------------------
\* ConnectionManager.request (src/clockify_sdk/connection.py)
\* ------------------------------------------------------------------------

\* variant: the key is only filled in when the caller gave none (setdefault)
PrepareHeaders_keep_caller(h, key) ==
  LET d == IF h.none \/ DOMAIN h.dict = {} THEN EmptyDict ELSE h.dict
  IN [n \in DOMAIN d \cup {"X-Api-Key"} |->
        IF n \in DOMAIN d THEN d[n] ELSE key]

\* if not headers: headers = {} ; headers["X-Api-Key"] = self.api_key
PrepareHeaders(h, key) ==
  LET d == IF h.none \/ DOMAIN h.dict = {} THEN EmptyDict ELSE h.dict
  IN [n \in DOMAIN d \cup {"X-Api-Key"} |->
        IF n = "X-Api-Key" THEN key ELSE d[n]]

\* response.json(): the body texts of the model and the documents they decode to
JsonDecode(text) ==
  CASE text = "[]"    -> [ok |-> TRUE, doc |-> <<>>]
    [] text = "[1,2]" -> [ok |-> TRUE, doc |-> <<1, 2>>]
    [] OTHER          -> [ok |-> FALSE, doc |-> <<>>]

\* response.raise_for_status() raises HTTPStatusError for 4xx and 5xx
raise_for_status(status) == status >= 400

\* e.response.headers.get("Retry-After", "60")
retry_after(response) ==
  IF "Retry-After" \in DOMAIN response.headers
    THEN response.headers["Retry-After"]
    ELSE <<"6", "0">>

\* variant: the 403 branch is missing
MapStatusError_no_403(response, url) ==
  CASE response.status = 401 -> Exc("AuthenticationError", "Invalid API key", <<>>)
    [] response.status = 404 -> Exc("ResourceNotFoundError", "Resource not found: {url}", <<url>>)
    [] response.status = 429 ->
         Exc("RateLimitError", "Rate limit exceeded. Retry after {retry_after} seconds",
             retry_after(response))
    [] OTHER -> Exc("APIError", "API request failed: {e!s}", <<>>)

\* except httpx.HTTPStatusError as e: the error raised for e.response
MapStatusError(response, url) ==
  CASE response.status = 401 -> Exc("AuthenticationError", "Invalid API key", <<>>)
    [] response.status = 403 -> Exc("AuthenticationError", "Insufficient permissions", <<>>)
    [] response.status = 404 -> Exc("ResourceNotFoundError", "Resource not found: {url}", <<url>>)
    [] response.status = 429 ->
         Exc("RateLimitError", "Rate limit exceeded. Retry after {retry_after} seconds",
             retry_after(response))
    [] OTHER -> Exc("APIError", "API request failed: {e!s}", <<>>)

\* the try block after the response arrived, with its HTTPStatusError handler
HandleResponse(response, url) ==
  IF raise_for_status(response.status)
    THEN Raise(MapStatusError(response, url))
    ELSE IF JsonDecode(response.body).ok
           THEN Return(JsonDecode(response.body).doc)
           ELSE Raise(Exc("JSONDecodeError", "", <<>>))

\* variant: the httpx error leaves request() as it is
HandleRequestError_unwrapped(failure) ==
  Raise(Exc(failure, "", <<>>))

\* except httpx.RequestError as e: raise APIError(f"Request failed: {e!s}")
HandleRequestError(failure) ==
  Raise(Exc("APIError", "Request failed: {e!s}", <<failure>>))

\* variant: a 5xx response is retried as well
RetriesOn_server_errors(ev) ==
  ev.kind = "connect" \/ (ev.kind = "response" /\ ev.status >= 500)

\* httpx.HTTPTransport(retries=...): only a failure to establish the
\* connection is retried; ev is [kind: connect | transfer | response, status]
RetriesOn(ev) == ev.kind = "connect"

\* request(method, url, json, params, headers): up to self.client.request(...)
request(method, url, headers) ==
  /\ pc = "idle"
  /\ pc' = "request"
  /\ headers_arg' = headers
  /\ req' = [method |-> method, url |-> url, headers |-> PrepareHeaders(headers, api_key)]
  /\ retries_left' = max_retries
  /\ attempts' = 1
  /\ exchanges' = 0
  /\ net_failures' = 0
  /\ resp' = NoResponse
  /\ outcome' = NoOutcome
  /\ UNCHANGED <<api_key, has_workspace_id, client_vars, compliance_vars, reporter_vars, report_vars>>

\* url = f"{Config.BASE_URL}/{path}" for the paths of the model
CoreUrl(path) ==
  CASE path = "workspaces" -> "https://api.clockify.me/api/v1/workspaces"
    [] path = "user"       -> "https://api.clockify.me/api/v1/user"

\* ApiClientBase._request(method, path, json=, params=, response_type=) as
\* the user, project, task, client and time-entry managers call it:
\* self._connection.request(method=method, url=url, json=json, params=params)
api_request(method, path) == request(method, CoreUrl(path), NoHeadersArg)

\* the transport starts another connection attempt
TransportRetry ==
  /\ retries_left' = retries_left - 1
  /\ attempts' = attempts + 1
  /\ pc' = pc
  /\ outcome' = outcome

\* the connection cannot be established
ConnectFail(failure) ==
  /\ pc = "request"
  /\ net_failures' = net_failures + 1
  /\ IF RetriesOn([kind |-> "connect", status |-> 0]) /\ retries_left > 0
       THEN TransportRetry
       ELSE /\ pc' = "request_done"
            /\ outcome' = HandleRequestError(failure)
            /\ UNCHANGED <<retries_left, attempts>>
  /\ UNCHANGED <<api_key, has_workspace_id, client_vars, compliance_vars, reporter_vars, headers_arg, req, exchanges, resp, report_vars>>

\* the request went out on an established connection and the transfer failed
TransferFail(failure) ==
  /\ pc = "request"
  /\ net_failures' = net_failures + 1
  /\ exchanges' = exchanges + 1
  /\ IF RetriesOn([kind |-> "transfer", status |-> 0]) /\ retries_left > 0
       THEN TransportRetry
       ELSE /\ pc' = "request_done"
            /\ outcome' = HandleRequestError(failure)
            /\ UNCHANGED <<retries_left, attempts>>
  /\ UNCHANGED <<api_key, has_workspace_id, client_vars, compliance_vars, reporter_vars, headers_arg, req, resp, report_vars>>

\* the server answers
Respond(status, headers, body) ==
  /\ pc = "request"
  /\ exchanges' = exchanges + 1
  /\ resp' = [status |-> status, headers |-> headers, body |-> body]
  /\ IF RetriesOn([kind |-> "response", status |-> status]) /\ retries_left > 0
       THEN TransportRetry
       ELSE /\ pc' = "request_done"
            /\ outcome' = HandleResponse(resp', req.url)
            /\ UNCHANGED <<retries_left, attempts>>
  /\ UNCHANGED <<api_key, has_workspace_id, client_vars, compliance_vars, reporter_vars, headers_arg, req, net_failures, report_vars>>

\* ------------------------------------------------------------------------
\* The reporting backend behind POST workspaces/{id}/reports/detailed
\* ------------------------------------------------------------------------

\* the time entries of the date range and filter set, in DATE order
Dataset(n) == [i \in 1..n |-> i]

\* the entries the backend serves for page k when asked for pageSize P;
\* the backend never serves more than b.cap entries in one page
BackendPage(b, k, P) ==
  LET L == Min(P, b.cap)
  IN SubSeq(Dataset(b.n), (k - 1) * L + 1, Min(k * L, b.n))

\* what a request for page k yields once it has gone through
\* ConnectionManager.request: the report's 'timeentries' or a raised error
ReportsEndpoint(b, k, P) ==
  IF b.fail_at = k
    THEN [sent |-> TRUE, out |-> Raise(Exc("APIError", "API request failed: {e!s}", <<>>))]
    ELSE [sent |-> TRUE, out |-> Return(BackendPage(b, k, P))]

Backends ==
  [n : 0..MaxEntries, cap : 1..MaxPageSize, fail_at : 0..MaxEntries]

\* ------------------------------------------------------------------------
\* ApiClientBase._request (src/clockify_sdk/base/client.py)
\* ------------------------------------------------------------------------

\* variant: the signature get_detailed and get_summary assume
RequestKeywords_with_is_reports == {"json", "params", "response_type", "is_reports"}

\* the keyword parameters _request declares after `*`
RequestKeywords == {"json", "params", "response_type"}

\* a call with a keyword the signature does not declare raises TypeError
\* before the body runs; otherwise the request goes to the connection
_request(kwargs, b, k, P) ==
  IF ~(kwargs \subseteq RequestKeywords)
    THEN [sent |-> FALSE, base |-> "",
          out |-> Raise(Exc("TypeError", "unexpected keyword argument", <<"is_reports">>))]
    \* url = f"{Config.BASE_URL}/{path}"
    ELSE [sent |-> TRUE, base |-> "Config.BASE_URL", out |-> ReportsEndpoint(b, k, P).out]

\* ------------------------------------------------------------------------
\* ReportManager (src/clockify_sdk/models/report.py)
\* ------------------------------------------------------------------------

\* get_detailed: evaluates f"workspaces/{self.workspace_id}/reports/detailed"
\* and calls self._request(..., json=, response_type=, is_reports=True)
get_detailed(has_ws, b, k, P) ==
  IF ~has_ws
    THEN [sent |-> FALSE, base |-> "",
          out |-> Raise(Exc("AttributeError", "no attribute", <<"workspace_id">>))]
    ELSE _request({"json", "response_type", "is_reports"}, b, k, P)

\* get_summary: the same path evaluation and the same keywords; page 0 and
\* page size 1 stand for a request that is not paginated
summary_request(has_ws, b) ==
  IF ~has_ws
    THEN [sent |-> FALSE, base |-> "",
          out |-> Raise(Exc("AttributeError", "no attribute", <<"workspace_id">>))]
    ELSE _request({"json", "response_type", "is_reports"}, b, 0, 1)

\* variant: an error on page 1 is raised again instead of swallowed
LoopStep_first_page_propagates(all, pg, P, out) ==
  IF out.kind = "raise"
    THEN [all |-> all, page |-> pg, break |-> TRUE,
          raised |-> IF pg = 1 THEN out.exc ELSE NoExc]
    ELSE LET time_entries == out.value
         IN IF time_entries = <<>>
              THEN [all |-> all, page |-> pg, break |-> TRUE, raised |-> NoExc]
              ELSE IF Len(time_entries) < P
                     THEN [all |-> all \o time_entries, page |-> pg,
                           break |-> TRUE, raised |-> NoExc]
                     ELSE [all |-> all \o time_entries, page |-> pg + 1,
                           break |-> FALSE, raised |-> NoExc]

\* variant: a failed page is skipped and the loop goes on with the next one
LoopStep_continue_on_error(all, pg, P, out) ==
  IF out.kind = "raise"
    THEN [all |-> all, page |-> pg + 1, break |-> FALSE, raised |-> NoExc]
    ELSE LET time_entries == out.value
         IN IF time_entries = <<>>
              THEN [all |-> all, page |-> pg, break |-> TRUE, raised |-> NoExc]
              ELSE IF Len(time_entries) < P
                     THEN [all |-> all \o time_entries, page |-> pg,
                           break |-> TRUE, raised |-> NoExc]
                     ELSE [all |-> all \o time_entries, page |-> pg + 1,
                           break |-> FALSE, raised |-> NoExc]

\* one iteration of the `while True` loop, after get_detailed gave `out`
LoopStep(all, pg, P, out) ==
  IF out.kind = "raise"
    \* except Exception as e: print(...); break
    THEN [all |-> all, page |-> pg, break |-> TRUE, raised |-> NoExc]
    ELSE LET time_entries == out.value
         IN IF time_entries = <<>>
              THEN [all |-> all, page |-> pg, break |-> TRUE, raised |-> NoExc]
              ELSE IF Len(time_entries) < P
                     THEN [all |-> all \o time_entries, page |-> pg,
                           break |-> TRUE, raised |-> NoExc]
                     ELSE [all |-> all \o time_entries, page |-> pg + 1,
                           break |-> FALSE, raised |-> NoExc]

\* get_detailed_all_pages(start, end, user_ids, project_ids, page_size):
\* all_time_entries = [] ; page = 1
get_detailed_all_pages(P, b) ==
  /\ pc = "idle"
  /\ pc' = "all_pages"
  /\ backend' = b
  /\ page_size' = P
  /\ page' = 1
  /\ all_time_entries' = <<>>
  /\ page_requests' = <<>>
  /\ fetch_errors' = <<>>
  /\ report_bases' = <<>>
  /\ report_outcome' = NoOutcome
  /\ UNCHANGED <<api_key, has_workspace_id, client_vars, compliance_vars, reporter_vars, transport_vars>>

\* get_summary(start, end, ...): one call of _request, nothing is caught
get_summary(b) ==
  /\ pc = "idle"
  /\ pc' = "summary_done"
  /\ LET r == summary_request(has_workspace_id, b)
     IN /\ report_bases' = IF r.sent THEN <<r.base>> ELSE <<>>
        /\ fetch_errors' = IF r.out.kind = "raise"
                             THEN <<[page |-> 0, exc |-> r.out.exc]>>
                             ELSE <<>>
        /\ report_outcome' = r.out
  /\ backend' = b
  /\ page_size' = 1
  /\ page' = 1
  /\ all_time_entries' = <<>>
  /\ page_requests' = <<>>
  /\ UNCHANGED <<api_key, has_workspace_id, client_vars, compliance_vars, reporter_vars, transport_vars>>

\* one pass through the loop body; leaving the loop returns all_time_entries
FetchPage ==
  /\ pc = "all_pages"
  /\ LET r == get_detailed(has_workspace_id, backend, page, page_size)
         s == LoopStep(all_time_entries, page, page_size, r.out)
     IN /\ page_requests' = IF r.sent THEN Append(page_requests, page) ELSE page_requests
        /\ report_bases' = IF r.sent THEN Append(report_bases, r.base) ELSE report_bases
        /\ fetch_errors' = IF r.out.kind = "raise"
                             THEN Append(fetch_errors, [page |-> page, exc |-> r.out.exc])
                             ELSE fetch_errors
        /\ all_time_entries' = s.all
        /\ page' = s.page
        /\ IF s.break
             THEN /\ pc' = "all_pages_done"
                  /\ report_outcome' = IF s.raised # NoExc THEN Raise(s.raised)
                                                           ELSE Return(s.all)
             ELSE /\ pc' = pc
                  /\ report_outcome' = report_outcome
  /\ UNCHANGED <<api_key, has_workspace_id, client_vars, compliance_vars, reporter_vars, backend, page_size, transport_vars>>

\* the caller takes the result; the locals of the call are gone
Finish ==
  /\ pc \in {"request_done", "all_pages_done", "summary_done"}
  /\ pc' = "idle"
  /\ headers_arg' = NoHeadersArg
  /\ req' = NoRequest
  /\ retries_left' = 0
  /\ attempts' = 0
  /\ exchanges' = 0
  /\ net_failures' = 0
  /\ resp' = NoResponse
  /\ outcome' = NoOutcome
  /\ backend' = NoBackend
  /\ page_size' = 1
  /\ page' = 1
  /\ all_time_entries' = <<>>
  /\ page_requests' = <<>>
  /\ fetch_errors' = <<>>
  /\ report_bases' = <<>>
  /\ report_outcome' = NoOutcome
  /\ UNCHANGED <<api_key, has_workspace_id, client_vars, compliance_vars, reporter_vars>>

\* ------------------------------------------------------------------------
\* Report entries as the examples read them (src/examples/project_detail.py,
\* src/examples/advanced_usage.py)
\* ------------------------------------------------------------------------

\* Python numbers: an int or a float, held in thousandths
NoNum == [type |-> "none", ms |-> 0]
PyInt(n) == [type |-> "int", ms |-> n * 1000]
PyFloat(thousandths) == [type |-> "float", ms |-> thousandths]

\* bool(value) of a number or None
Truthy(num) == num.type # "none" /\ num.ms # 0

\* a + b on Python numbers
PyAdd(a, b) ==
  [type |-> IF a.type = "float" \/ b.type = "float" THEN "float" ELSE "int",
   ms |-> a.ms + b.ms]

\* wall-clock times, in milliseconds after Monday 2024-03-18T00:00:00
HourMs == 60 * 60 * 1000
DayMs == 24 * HourMs

\* a timestamp field: None, an ISO-8601 text (wall clock and zone suffix),
\* a text that is no timestamp, or a value that is no text at all
NoTimestamp == [kind |-> "none", wall |-> 0, suffix |-> ""]
Iso(wall, suffix) == [kind |-> "iso", wall |-> wall, suffix |-> suffix]
GarbageText == [kind |-> "garbage", wall |-> 0, suffix |-> ""]
NotText == [kind |-> "int", wall |-> 0, suffix |-> ""]

\* bool(value) of a timestamp field
Present(ts) == ts.kind # "none"

NoDatetime == [wall |-> 0, aware |-> FALSE, offset |-> 0]
ParseOk(dt) == [ok |-> TRUE, exc |-> "", dt |-> dt]
ParseRaise(e) == [ok |-> FALSE, exc |-> e, dt |-> NoDatetime]

\* datetime.fromisoformat of a text whose trailing Z has been rewritten
fromisoformat(ts) ==
  CASE ts.kind = "garbage" -> ParseRaise("ValueError")
    [] ts.suffix = "+00:00" -> ParseOk([wall |-> ts.wall, aware |-> TRUE, offset |-> 0])
    [] ts.suffix = "+02:00" -> ParseOk([wall |-> ts.wall, aware |-> TRUE, offset |-> 2 * HourMs])
    [] ts.suffix = ""       -> ParseOk([wall |-> ts.wall, aware |-> FALSE, offset |-> 0])
    [] OTHER                -> ParseRaise("ValueError")

\* date_str.replace('Z', '+00:00')
ReplaceZ(ts) == IF ts.suffix = "Z" THEN [ts EXCEPT !.suffix = "+00:00"] ELSE ts

\* variant: the Z suffix is handed to fromisoformat as it is
_parse_date_keeps_Z(ts) ==
  IF ts.kind \in {"int", "none"}
    THEN ParseRaise("AttributeError")
    ELSE fromisoformat(ts)

\* ProjectDetailReporter._parse_date: date_str.endswith('Z') needs a text;
\* the fallback parses the same rewritten text again
_parse_date(ts) ==
  IF ts.kind \in {"int", "none"}
    THEN ParseRaise("AttributeError")
    ELSE LET first == fromisoformat(IF ts.suffix = "Z" THEN ReplaceZ(ts) ELSE ts)
         IN IF first.ok \/ first.exc # "ValueError"
              THEN first
              ELSE fromisoformat(ReplaceZ(ts))

\* ClockifyAnalytics: datetime.fromisoformat(start.replace("Z", "+00:00"))
analytics_parse(ts) ==
  IF ts.kind \in {"int", "none"}
    THEN ParseRaise("AttributeError")
    ELSE fromisoformat(ReplaceZ(ts))

\* int(x) of a quotient: truncation toward zero
TruncDiv(x, d) == IF x >= 0 THEN x \div d ELSE -((-x) \div d)

\* (end_dt - start_dt): naive and aware datetimes do not subtract
Subtract(end_dt, start_dt) ==
  IF end_dt.aware # start_dt.aware
    THEN [ok |-> FALSE, exc |-> "TypeError", ms |-> 0]
    ELSE [ok |-> TRUE, exc |-> "",
          ms |-> (end_dt.wall - end_dt.offset) - (start_dt.wall - start_dt.offset)]

NoDuration == [kind |-> "none", value |-> NoNum, exc |-> ""]
DReturn(v) == [kind |-> "return", value |-> v, exc |-> ""]
DRaise(e) == [kind |-> "raise", value |-> NoNum, exc |-> e]

\* the try block of _calculate_duration, given what parsing start and end
\* gave, with its except (ValueError, TypeError)
TryInterval(start_dt, end_dt) ==
  LET diff == Subtract(end_dt.dt, start_dt.dt)
      raised == IF ~start_dt.ok THEN start_dt.exc
                ELSE IF ~end_dt.ok THEN end_dt.exc
                ELSE IF ~diff.ok THEN diff.exc
                ELSE ""
  IN IF raised = ""
       THEN DReturn(PyInt(TruncDiv(diff.ms, 1000)))
       ELSE IF raised \in {"ValueError", "TypeError"}
              THEN DReturn(PyInt(0))
              ELSE DRaise(raised)

\* variant: the subtraction is start - end
_calculate_duration_reversed(entry) ==
  IF Truthy(entry.duration)
    THEN DReturn(entry.duration)
    ELSE IF ~Present(entry.start) \/ ~Present(entry.end)
           THEN DReturn(PyInt(0))
           ELSE TryInterval(_parse_date(entry.end), _parse_date(entry.start))

\* ProjectDetailReporter._calculate_duration
_calculate_duration(entry) ==
  IF Truthy(entry.duration)
    THEN DReturn(entry.duration)
    ELSE IF ~Present(entry.start) \/ ~Present(entry.end)
           THEN DReturn(PyInt(0))
           ELSE TryInterval(_parse_date(entry.start), _parse_date(entry.end))

\* ClockifyAnalytics._calculate_duration
analytics_calculate_duration(entry) ==
  IF Truthy(entry.duration)
    THEN DReturn(entry.duration)
    ELSE IF ~Present(entry.start) \/ ~Present(entry.end)
           THEN DReturn(PyInt(0))
           ELSE TryInterval(analytics_parse(entry.start), analytics_parse(entry.end))

\* a time entry: the fields the examples read; a None or absent field
\* reads the same through dict.get
Entry(userId, duration, start, end, taskId, billable) ==
  [userId |-> userId, duration |-> duration, start |-> start, end |-> end,
   taskId |-> taskId, billable |-> billable]
NoEntry == Entry("", NoNum, NoTimestamp, NoTimestamp, "", FALSE)
EmptyMap == [k \in {} |-> NoNum]

\* inputs of the duration calls
DurationValues == {NoNum, PyInt(0), PyInt(1800), PyInt(-60), PyFloat(1500)}
TimestampValues ==
  {NoTimestamp, GarbageText, NotText,
   Iso(9 * HourMs, "Z"), Iso(9 * HourMs, "+00:00"), Iso(9 * HourMs + 500, "Z"),
   Iso(11 * HourMs, "Z"), Iso(11 * HourMs, "+00:00"), Iso(13 * HourMs, "+02:00"),
   Iso(11 * HourMs, "")}
DurationEntries ==
  { Entry("u1", d, s, e, "", FALSE) :
      d \in DurationValues, s \in TimestampValues, e \in TimestampValues }

\* ------------------------------------------------------------------------
\* Grouping of entries per user (ProjectDetailReporter._process_weekly_data,
\* _process_monthly_data)
\* ------------------------------------------------------------------------

\* dict[key] = value
Put(map, key, value) ==
  [k \in DOMAIN map \cup {key} |-> IF k = key THEN value ELSE map[k]]

\* variant: the value is assigned, where the code adds it
AddTo_overwrite(map, key, value) == Put(map, key, value)

\* if key not in dict: dict[key] = 0; then dict[key] += value
AddTo(map, key, value) ==
  Put(map, key, PyAdd(IF key \in DOMAIN map THEN map[key] ELSE PyInt(0), value))

\* f'User {user_id[:8]}': the name when neither project_users nor the user
\* list knows the user
_get_user_name_from_all_users(user_id) ==
  CASE user_id = "u1" -> "User u1"
    [] user_id = "u2" -> "User u2"
    [] OTHER -> "User "

\* f'Task {task_id[:8]}'
_get_task_name(task_id) ==
  CASE task_id \in {"design01-a", "design01-b"} -> "Task design01"
    [] task_id = "build001-a" -> "Task build001"
    [] OTHER -> "Task "

\* date.weekday(): 0 is Monday; day 0 of the wall clock is Monday 2024-03-18
weekday(dt) == (dt.wall \div DayMs) % 7

\* strftime('%A')
strftime_A(dt) ==
  <<"Monday", "Tuesday", "Wednesday", "Thursday", "Friday", "Saturday", "Sunday">>[weekday(dt) + 1]

\* date - timedelta(days=date.weekday())
_get_week_start(dt) == [dt EXCEPT !.wall = dt.wall - weekday(dt) * DayMs]

\* strftime('%Y-%m-%d')
strftime_Ymd(dt) ==
  <<"2024-03-18", "2024-03-19", "2024-03-20", "2024-03-21", "2024-03-22", "2024-03-23",
    "2024-03-24", "2024-03-25", "2024-03-26", "2024-03-27", "2024-03-28", "2024-03-29",
    "2024-03-30", "2024-03-31">>[(dt.wall \div DayMs) + 1]

\* variant: entries without a user are grouped too
SkipEntry_never(entry) == FALSE

\* if not user_id: continue
SkipEntry(entry) == entry.userId = ""

WeeklyBucket(user_id) ==
  [total_seconds |-> PyInt(0), tasks |-> EmptyMap, daily_hours |-> EmptyMap,
   daily_tasks |-> EmptyMap, user_name |-> _get_user_name_from_all_users(user_id)]

MonthlyBucket(user_id) ==
  [total_seconds |-> PyInt(0), billable_seconds |-> PyInt(0), weekly_totals |-> EmptyMap,
   user_name |-> _get_user_name_from_all_users(user_id)]

\* variant: the task mapping is left alone
GroupByTask_untracked(bucket, entry, duration_seconds) == bucket

\* "Group by task"
GroupByTask(bucket, entry, duration_seconds) ==
  IF entry.taskId # ""
    THEN [bucket EXCEPT !.tasks = AddTo(@, _get_task_name(entry.taskId), duration_seconds)]
    ELSE bucket

\* "Group by day" and "Track tasks per day", once the start is parsed
GroupByDay(bucket, entry, duration_seconds, day) ==
  LET tasks_of_day == IF day \in DOMAIN bucket.daily_tasks
                        THEN bucket.daily_tasks[day]
                        ELSE EmptyMap
  IN [bucket EXCEPT
        !.daily_hours = AddTo(@, day, duration_seconds),
        !.daily_tasks =
           Put(@, day, IF entry.taskId # ""
                         THEN AddTo(tasks_of_day, _get_task_name(entry.taskId),
                                    duration_seconds)
                         ELSE tasks_of_day)]

\* variant: only the first entry of a week is counted
GroupByWeek_first_only(bucket, week_key, duration_seconds) ==
  IF week_key \in DOMAIN bucket.weekly_totals
    THEN bucket
    ELSE [bucket EXCEPT !.weekly_totals = AddTo(@, week_key, duration_seconds)]

\* "Group by week", once the start is parsed
GroupByWeek(bucket, week_key, duration_seconds) ==
  [bucket EXCEPT !.weekly_totals = AddTo(@, week_key, duration_seconds)]

Stepped(td, exc) == [team_data |-> td, exc |-> exc]

\* one pass of the loop of _process_weekly_data; a raise leaves the loop
_process_weekly_entry(td, entry) ==
  IF SkipEntry(entry)
    THEN Stepped(td, "")
    ELSE
      LET user_id == entry.userId
          td1 == IF user_id \in DOMAIN td THEN td ELSE Put(td, user_id, WeeklyBucket(user_id))
          d == _calculate_duration(entry)
      IN IF d.kind = "raise"
           THEN Stepped(td1, d.exc)
           ELSE
             LET b1 == [td1[user_id] EXCEPT !.total_seconds = PyAdd(@, d.value)]
                 b2 == GroupByTask(b1, entry, d.value)
                 date == _parse_date(entry.start)
             IN IF ~Present(entry.start)
                  THEN Stepped(Put(td1, user_id, b2), "")
                  ELSE IF ~date.ok
                         THEN Stepped(Put(td1, user_id, b2), date.exc)
                         ELSE Stepped(Put(td1, user_id,
                                          GroupByDay(b2, entry, d.value, strftime_A(date.dt))),
                                      "")

\* one pass of the loop of _process_monthly_data
_process_monthly_entry(td, entry) ==
  IF SkipEntry(entry)
    THEN Stepped(td, "")
    ELSE
      LET user_id == entry.userId
          td1 == IF user_id \in DOMAIN td THEN td ELSE Put(td, user_id, MonthlyBucket(user_id))
          d == _calculate_duration(entry)
      IN IF d.kind = "raise"
           THEN Stepped(td1, d.exc)
           ELSE
             LET b1 == [td1[user_id] EXCEPT !.total_seconds = PyAdd(@, d.value)]
                 b2 == IF entry.billable
                         THEN [b1 EXCEPT !.billable_seconds = PyAdd(@, d.value)]
                         ELSE b1
                 date == _parse_date(entry.start)
             IN IF ~Present(entry.start)
                  THEN Stepped(Put(td1, user_id, b2), "")
                  ELSE IF ~date.ok
                         THEN Stepped(Put(td1, user_id, b2), date.exc)
                         ELSE Stepped(Put(td1, user_id,
                                          GroupByWeek(b2, strftime_Ymd(_get_week_start(date.dt)),
                                                      d.value)),
                                      "")

\* inputs of the grouping: entries of two users and of nobody, with and
\* without explicit duration, start, task and billable flag
MaxGroupEntries == 3
Sunday2330 == 6 * DayMs + 23 * HourMs + 30 * 60 * 1000
GroupEntries ==
  { Entry("u1", NoNum, Iso(9 * HourMs, "Z"), Iso(11 * HourMs, "Z"), "", TRUE),
    Entry("u1", PyInt(1800), NoTimestamp, NoTimestamp, "", FALSE),
    Entry("u1", PyInt(600), Iso(9 * HourMs, "+00:00"), NoTimestamp, "design01-a", TRUE),
    Entry("u1", PyInt(1200), Iso(DayMs + 10 * HourMs, "Z"), NoTimestamp, "design01-b", TRUE),
    Entry("u2", NoNum, Iso(Sunday2330, "Z"), Iso(Sunday2330 + HourMs, "Z"), "build001-a", FALSE),
    Entry("u2", PyInt(900), Iso(Sunday2330 + 2 * HourMs, "+02:00"), NoTimestamp, "design01-b", FALSE),
    Entry("u2", NoNum, GarbageText, Iso(11 * HourMs, "Z"), "", FALSE),
    Entry("", PyInt(300), Iso(9 * HourMs, "Z"), NoTimestamp, "design01-a", TRUE) }
EntryLists == UNION { [1..n -> GroupEntries] : n \in 0..MaxGroupEntries }

\* team_data = {} and the loop is entered
_process_weekly_data(entries) ==
  /\ pc = "idle"
  /\ pc' = "weekly"
  /\ entries_arg' = entries
  /\ idx' = 1
  /\ team_data' = EmptyMap
  /\ UNCHANGED <<api_key, has_workspace_id, client_vars, compliance_vars, transport_vars, report_vars,
                 entry_arg, duration_out, analytics_out, group_out>>

_process_monthly_data(entries) ==
  /\ pc = "idle"
  /\ pc' = "monthly"
  /\ entries_arg' = entries
  /\ idx' = 1
  /\ team_data' = EmptyMap
  /\ UNCHANGED <<api_key, has_workspace_id, client_vars, compliance_vars, transport_vars, report_vars,
                 entry_arg, duration_out, analytics_out, group_out>>

\* the next entry of the loop, or `return team_data` after the last
GroupEntry ==
  /\ pc \in {"weekly", "monthly"}
  /\ IF idx > Len(entries_arg)
       THEN /\ pc' = IF pc = "weekly" THEN "weekly_done" ELSE "monthly_done"
            /\ group_out' = DReturn(NoNum)
            /\ UNCHANGED <<idx, team_data>>
       ELSE LET r == IF pc = "weekly"
                       THEN _process_weekly_entry(team_data, entries_arg[idx])
                       ELSE _process_monthly_entry(team_data, entries_arg[idx])
            IN /\ team_data' = r.team_data
               /\ IF r.exc # ""
                    THEN /\ pc' = IF pc = "weekly" THEN "weekly_done" ELSE "monthly_done"
                         /\ group_out' = DRaise(r.exc)
                         /\ idx' = idx
                    ELSE /\ idx' = idx + 1
                         /\ UNCHANGED <<pc, group_out>>
  /\ UNCHANGED <<api_key, has_workspace_id, client_vars, compliance_vars, transport_vars, report_vars,
                 entry_arg, duration_out, analytics_out, entries_arg>>

\* a caller asks both reporters for the duration of one entry
calculate_duration(entry) ==
  /\ pc = "idle"
  /\ pc' = "duration_done"
  /\ entry_arg' = entry
  /\ duration_out' = _calculate_duration(entry)
  /\ analytics_out' = analytics_calculate_duration(entry)
  /\ UNCHANGED <<api_key, has_workspace_id, client_vars, compliance_vars, transport_vars, report_vars,
                 entries_arg, idx, team_data, group_out>>

\* the caller takes the result of a reporter call
ReporterFinish ==
  /\ pc \in {"duration_done", "weekly_done", "monthly_done"}
  /\ pc' = "idle"
  /\ entry_arg' = NoEntry
  /\ duration_out' = NoDuration
  /\ analytics_out' = NoDuration
  /\ entries_arg' = <<>>
  /\ idx' = 1
  /\ team_data' = EmptyMap
  /\ group_out' = NoDuration
  /\ UNCHANGED <<api_key, has_workspace_id, client_vars, compliance_vars, transport_vars, report_vars>>

\* ------------------------------------------------------------------------
\* Python floats (IEEE 754 binary64), as the compliance check computes with
\* them: a float other than zero is 0.b1 b2 ... b53 times 2^e with b1 = 1,
\* negated when neg
\* ------------------------------------------------------------------------
Precision == 53

FloatZero == [zero |-> TRUE, neg |-> FALSE, bits |-> [i \in 1..Precision |-> 0], e |-> 0]

\* the digits of 0 <= n < 2^width, highest first
Bits(n, width) == [j \in 1..width |-> (n \div 2^(width - j)) % 2]

\* digits without their leading zeros
Strip(digits) ==
  LET ones == { i \in 1..Len(digits) : digits[i] = 1 }
  IN IF ones = {}
       THEN <<>>
       ELSE SubSeq(digits, CHOOSE i \in ones : \A k \in ones : i <= k, Len(digits))

IntBits(n) == Strip(Bits(n, 31))

\* digits are worked on ten at a time
ChunkWidth == 10
ChunkBase == 2^ChunkWidth

\* the number written by the k-th ten digits, zeros after the last digit
Chunk(digits, k) ==
  LET at(j) == IF (k - 1) * ChunkWidth + j <= Len(digits)
                 THEN digits[(k - 1) * ChunkWidth + j]
                 ELSE 0
  IN 512 * at(1) + 256 * at(2) + 128 * at(3) + 64 * at(4) + 32 * at(5)
       + 16 * at(6) + 8 * at(7) + 4 * at(8) + 2 * at(9) + at(10)

\* mantissa + 1 unit in the last place
Increment(bits) ==
  LET zeros == { i \in 1..Precision : bits[i] = 0 }
  IN IF zeros = {}
       THEN [bits |-> [i \in 1..Precision |-> IF i = 1 THEN 1 ELSE 0], carry |-> 1]
       ELSE LET j == CHOOSE i \in zeros : \A k \in zeros : k <= i
            IN [bits |-> [i \in 1..Precision |->
                            IF i < j THEN bits[i] ELSE IF i = j THEN 1 ELSE 0],
                carry |-> 0]

\* round to nearest, ties to even: digits is the exact binary expansion as
\* far as it was computed (first digit 1), sticky tells whether more follows
RoundToFloat(digits, e, sticky) ==
  LET L == Len(digits)
      keep == [i \in 1..Precision |-> IF i <= L THEN digits[i] ELSE 0]
      guard == IF L > Precision THEN digits[Precision + 1] ELSE 0
      rest == sticky \/ \E i \in (Precision + 2)..L : digits[i] = 1
      up == guard = 1 /\ (rest \/ keep[Precision] = 1)
      inc == Increment(keep)
  IN IF up
       THEN [zero |-> FALSE, neg |-> FALSE, bits |-> inc.bits, e |-> e + inc.carry]
       ELSE [zero |-> FALSE, neg |-> FALSE, bits |-> keep, e |-> e]

\* float(n) of an int -2^31 < n < 2^31: exact
FromInt(n) ==
  IF n = 0 THEN FloatZero
  ELSE IF n > 0 THEN RoundToFloat(IntBits(n), Len(IntBits(n)), FALSE)
  ELSE [RoundToFloat(IntBits(-n), Len(IntBits(-n)), FALSE) EXCEPT !.neg = TRUE]

\* long division of 0.digits by the int 0 < d < 2^17, eight chunks far: q
\* the quotient digits, r the remainder
RECURSIVE LongDivision(_, _, _, _, _)
LongDivision(digits, d, k, r, q) ==
  IF k > 8
    THEN [q |-> q, r |-> r]
    ELSE LET x == r * ChunkBase + Chunk(digits, k)
         IN LongDivision(digits, d, k + 1, x % d, q \o Bits(x \div d, ChunkWidth))

\* f / d for a float f and an int d > 0 (d is exact as a float)
FloatDiv(f, d) ==
  IF f.zero
    THEN FloatZero
    ELSE LET res == LongDivision(f.bits, d, 1, 0, <<>>)
             digits == Strip(res.q)
             skipped == Len(res.q) - Len(digits)
         IN [RoundToFloat(digits, f.e - skipped, res.r # 0) EXCEPT !.neg = f.neg]

\* the digits of m * digits for an int 0 < m < 2^17, lowest chunk first
RECURSIVE Multiply(_, _, _, _, _)
Multiply(digits, m, k, carry, acc) ==
  IF k = 0
    THEN Strip(Bits(carry, 31) \o acc)
    ELSE LET x == Chunk(digits, k) * m + carry
         IN Multiply(digits, m, k - 1, x \div ChunkBase,
                     Bits(x % ChunkBase, ChunkWidth) \o acc)

\* m * f for an int m >= 0 and a float f
FloatMul(m, f) ==
  IF f.zero \/ m = 0
    THEN FloatZero
    ELSE LET padded == Bits(0, 6 * ChunkWidth - Precision) \o f.bits
             digits == Multiply(padded, m, 6, 0, <<>>)
         IN [RoundToFloat(digits, f.e + (Len(digits) - Precision), FALSE)
               EXCEPT !.neg = f.neg]

\* |a| >= |b|
MagnitudeGE(a, b) ==
  IF b.zero THEN TRUE
  ELSE IF a.zero THEN FALSE
  ELSE IF a.e # b.e THEN a.e > b.e
  ELSE LET differ == { i \in 1..Precision : a.bits[i] # b.bits[i] }
       IN \/ differ = {}
          \/ a.bits[CHOOSE i \in differ : \A k \in differ : i <= k] = 1

\* a >= b
FloatGE(a, b) ==
  IF a.neg # b.neg THEN b.neg
  ELSE IF a.neg THEN MagnitudeGE(b, a)
  ELSE MagnitudeGE(a, b)

\* ------------------------------------------------------------------------
\* Minimum-hours compliance (ProjectDetailReporter._load_minimum_hours_config,
\* _check_hours_compliance; clockify_sdk.utils.date_utils.count_weeks_in_range)
\* ------------------------------------------------------------------------

\* the value under 'minimum_weekly_hours' in a user record
NoMinimumKey == [type |-> "absent", n |-> 0]
MinimumNone == [type |-> "none", n |-> 0]
MinimumText == [type |-> "str", n |-> 40]
MinimumInt(n) == [type |-> "int", n |-> n]
MinimumValues == {NoMinimumKey, MinimumNone, MinimumText,
                  MinimumInt(-5), MinimumInt(0), MinimumInt(21), MinimumInt(40)}

\* what the configuration holds under a user id: an object, or a bare number
UserRecord(minimum) == [kind |-> "dict", minimum |-> minimum]
BareNumber == [kind |-> "number", minimum |-> NoMinimumKey]
NoRecords == [u \in {} |-> BareNumber]

\* developer_minimums.json: absent, no JSON, or a JSON value
ConfigFile(kind, items) == [kind |-> kind, items |-> items]
ConfigFiles ==
  { ConfigFile(k, NoRecords) : k \in {"absent", "invalid", "null", "number", "list", "dict"} }
    \cup { ConfigFile("list", [u \in {"u1"} |-> BareNumber]) }
    \cup { ConfigFile("dict", [u \in {"u1"} |-> BareNumber]) }
    \cup { ConfigFile("dict", [u \in {"u1"} |-> UserRecord(m)]) : m \in MinimumValues }

\* the loaded configuration: json.load's value when the file is there, is JSON
\* and has a len(); {} otherwise
_load_minimum_hours_config(file) ==
  IF file.kind \in {"list", "dict"}
    THEN [kind |-> file.kind, items |-> file.items]
    ELSE [kind |-> "dict", items |-> NoRecords]

\* (end_date - start_date).total_seconds() / (24 * 3600) / 7.0
count_weeks_in_range(period_seconds) ==
  FloatDiv(FloatDiv(FromInt(period_seconds), 24 * 3600), 7)

RedFlag == "(red circle) "
NoCompliance == [kind |-> "none", is_compliant |-> FALSE, display_prefix |-> "", exc |-> ""]
CReturn(is_compliant, display_prefix) ==
  [kind |-> "return", is_compliant |-> is_compliant, display_prefix |-> display_prefix,
   exc |-> ""]
CRaise(e) == [kind |-> "raise", is_compliant |-> FALSE, display_prefix |-> "", exc |-> e]

\* variant: a minimum of zero is a requirement
NoRequirement_zero_counts(minimum_weekly_hours) == minimum_weekly_hours < 0

\* minimum_weekly_hours <= 0
NoRequirement(minimum_weekly_hours) == minimum_weekly_hours <= 0

\* ProjectDetailReporter._check_hours_compliance on the loaded configuration
HoursCompliance(config, user_id, actual_hours, period_seconds) ==
  IF user_id \notin DOMAIN config.items
    THEN CReturn(TRUE, "")
    ELSE IF config.kind = "list"
      THEN CRaise("TypeError")
      ELSE LET user_config == config.items[user_id]
               minimum_weekly_hours ==
                 IF user_config.minimum.type = "absent"
                   THEN MinimumInt(0)
                   ELSE user_config.minimum
           IN IF user_config.kind # "dict"
                THEN CRaise("AttributeError")
                ELSE IF minimum_weekly_hours.type # "int"
                  THEN CRaise("TypeError")
                  ELSE IF NoRequirement(minimum_weekly_hours.n)
                    THEN CReturn(TRUE, "")
                    ELSE LET weeks_in_period == count_weeks_in_range(period_seconds)
                             expected_minimum ==
                               FloatMul(minimum_weekly_hours.n, weeks_in_period)
                         IN IF FloatGE(actual_hours, expected_minimum)
                              THEN CReturn(TRUE, "")
                              ELSE CReturn(FALSE, RedFlag)

\* inputs of the compliance calls
Users == {"u1", "u2"}
TotalSeconds == {-60, 0, 97199, 97200, 97201, 287964, 288000}
PeriodDays == {7, 9, 14}
NoComplianceArgs == [user_id |-> "", total_seconds |-> 0, days |-> 0]

\* a reporter is constructed where developer_minimums.json is `file`
ProjectDetailReporter(file) ==
  /\ pc = "idle"
  /\ minimum_hours_config' = _load_minimum_hours_config(file)
  /\ UNCHANGED <<pc, api_key, has_workspace_id, client_vars, transport_vars, report_vars, reporter_vars,
                 compliance_args, compliance_out>>

\* a report line: total_hours = total_seconds / 3600, checked over a period
\* of `days` days
_check_hours_compliance(user_id, total_seconds, days) ==
  /\ pc = "idle"
  /\ pc' = "compliance_done"
  /\ compliance_args' = [user_id |-> user_id, total_seconds |-> total_seconds, days |-> days]
  /\ compliance_out' = HoursCompliance(minimum_hours_config, user_id,
                                       FloatDiv(FromInt(total_seconds), 3600),
                                       days * 24 * 3600)
  /\ UNCHANGED <<api_key, has_workspace_id, client_vars, transport_vars, report_vars, reporter_vars,
                 minimum_hours_config>>

\* the caller takes the result
ComplianceFinish ==
  /\ pc = "compliance_done"
  /\ pc' = "idle"
  /\ compliance_args' = NoComplianceArgs
  /\ compliance_out' = NoCompliance
  /\ UNCHANGED <<api_key, has_workspace_id, client_vars, transport_vars, report_vars, reporter_vars,
                 minimum_hours_config>>

\* ------------------------------------------------------------------------
\* The service behind the client
\* ------------------------------------------------------------------------

\* Python's None where an id is expected
None == "None"

\* `if x:` on an optional id: None and "" are false
Given(x) == x \notin {None, ""}

WorkspaceIds == {"ws1", "ws2"}
UserIds == {"u1", "u2"}
WorkspaceArgs == {None, ""} \cup WorkspaceIds
ProjectArgs == {None, "p1"}
TaskArgs == {None, "t1"}
Descriptions == {"work"}

\* the workspaces the service lists for the API key, in its order
WorkspaceLists == { <<>>, <<"ws1">>, <<"ws2", "ws1">> }

\* time entries as the service lists them: a running entry has no end
RunningEntry(id) == [id |-> id, timeInterval |-> [start |-> "start", end |-> None]]
StoppedEntry(id) == [id |-> id, timeInterval |-> [start |-> "start", end |-> "end"]]
EndedEntry(id) == [id |-> id, end |-> "end"]
ServiceEntries ==
  { <<>>,
    <<RunningEntry("e1")>>,
    <<StoppedEntry("e1")>>,
    <<EndedEntry("e1")>>,
    <<EndedEntry("e1"), RunningEntry("e2")>> }

\* the service: the user of the API key, the workspaces and the time entries
\* it lists; a service that is down answers no request
NoService == [user |-> None, workspaces |-> <<>>, entries |-> <<>>, down |-> TRUE]
Services ==
  [user : UserIds, workspaces : WorkspaceLists, entries : ServiceEntries, down : {FALSE}]
    \cup {NoService}

\* one HTTP request as it reaches the service
Sent(method, path, json, params) ==
  [method |-> method, path |-> path, json |-> json, params |-> params]

\* the time entry the service answers a write on time entries with
WrittenEntry(path, json) ==
  [id |-> IF Len(path) = 4 THEN path[4] ELSE "e-new",
   timeInterval |-> [start |-> IF "start" \in DOMAIN json THEN json.start ELSE "start",
                     end |-> IF "end" \in DOMAIN json THEN json.end ELSE None]]

\* what a request yields once it has gone through the connection
ServiceAnswer(service, method, path, json) ==
  IF service.down
    THEN Raise(Exc("APIError", "API request failed: {e!s}", <<>>))
  ELSE IF path = <<"user">>
    THEN Return([id |-> service.user])
  ELSE IF path = <<"workspaces">>
    THEN Return([i \in 1..Len(service.workspaces) |-> [id |-> service.workspaces[i]]])
  ELSE IF Len(path) = 3 /\ path[3] = "projects"
    THEN Return(<<[id |-> "p1"]>>)
  ELSE IF Len(path) = 4 /\ path[3] = "projects"
    THEN Return([id |-> path[4]])
  ELSE IF Len(path) = 3 /\ path[3] = "time-entries" /\ method = "GET"
    THEN Return(service.entries)
  ELSE IF Len(path) >= 3 /\ path[3] = "time-entries"
    THEN Return(WrittenEntry(path, json))
    ELSE Raise(Exc("APIError", "API request failed: {e!s}", <<>>))

\* ------------------------------------------------------------------------
\* The managers (src/clockify_sdk/models, src/models)
\* ------------------------------------------------------------------------

\* ApiClientBase._request(method, path, *, json, params, response_type)
ApiClientBase_request(kwargs, service, method, path, json, params) ==
  IF ~(kwargs \subseteq RequestKeywords)
    THEN [sent |-> <<>>,
          out |-> Raise(Exc("TypeError", "unexpected keyword argument", <<>>))]
    ELSE [sent |-> <<Sent(method, path, json, params)>>,
          out |-> ServiceAnswer(service, method, path, json)]

\* the _request(method, path) the base class of UserManager provides
ClockifyBaseClient_request(service, method, path) ==
  [sent |-> <<Sent(method, path, EmptyDict, EmptyDict)>>,
   out |-> ServiceAnswer(service, method, path, EmptyDict)]

\* UserManager.get_current_user: self._request("GET", "user")
get_current_user(service) == ClockifyBaseClient_request(service, "GET", <<"user">>)

\* UserManager.get_workspaces: self._request("GET", "workspaces")
UserManager_get_workspaces(service) ==
  ClockifyBaseClient_request(service, "GET", <<"workspaces">>)

\* UserManager(api_key): user_id = None; workspace_id = None;
\* _initialize_user() asks for the user, then for the workspaces
UserManager(service) ==
  LET user == get_current_user(service)
  IN IF user.out.kind = "raise"
       THEN [raised |-> user.out.exc, sent |-> user.sent,
             user_id |-> None, workspace_id |-> None]
       ELSE LET workspaces == UserManager_get_workspaces(service)
            IN IF workspaces.out.kind = "raise"
                 THEN [raised |-> workspaces.out.exc,
                       sent |-> user.sent \o workspaces.sent,
                       user_id |-> user.out.value.id, workspace_id |-> None]
                 ELSE [raised |-> NoExc,
                       sent |-> user.sent \o workspaces.sent,
                       user_id |-> user.out.value.id,
                       workspace_id |-> IF workspaces.out.value # <<>>
                                          THEN workspaces.out.value[1].id
                                          ELSE None]

\* UserManager.set_active_workspace(workspace_id)
UserManager_set_active_workspace(user_manager, workspace_id) ==
  [user_manager EXCEPT !.workspace_id = workspace_id]

\* TimeEntryManager(connection_manager, workspace_id=None)
TimeEntryManager(workspace_id) == [workspace_id |-> workspace_id]

\* TaskManager.__init__(self, api_key, workspace_id)
TaskManagerParameters == <<"api_key", "workspace_id">>

\* a call that leaves a positional parameter without argument raises TypeError
MissingArgument(parameters, arguments) == Len(arguments) < Len(parameters)

\* ProjectManager.get_all(workspace_id)
ProjectManager_get_all(service, workspace_id) ==
  ApiClientBase_request({"response_type"}, service, "GET",
                        <<"workspaces", workspace_id, "projects">>, EmptyDict, EmptyDict)

\* ProjectManager.get_by_id(workspace_id, project_id)
get_by_id(service, workspace_id, project_id) ==
  ApiClientBase_request({"response_type"}, service, "GET",
                        <<"workspaces", workspace_id, "projects", project_id>>,
                        EmptyDict, EmptyDict)

\* TimeEntryManager.get_all(workspace_id, user_id):
\* params = {"userId": user_id} if user_id else {}
TimeEntryManager_get_all(service, workspace_id, user_id) ==
  ApiClientBase_request({"params", "response_type"}, service, "GET",
                        <<"workspaces", workspace_id, "time-entries">>, EmptyDict,
                        IF Given(user_id) THEN [k \in {"userId"} |-> user_id] ELSE EmptyDict)

\* TimeEntryManager.update(workspace_id, time_entry_id, time_entry)
update(service, workspace_id, time_entry_id, time_entry) ==
  ApiClientBase_request({"json", "response_type"}, service, "PUT",
                        <<"workspaces", workspace_id, "time-entries", time_entry_id>>,
                        time_entry, EmptyDict)

\* the keys of the body add_time_entry builds
TimeEntryKeys(project_id, task_id) ==
  {"start", "end", "description"}
    \cup (IF Given(project_id) THEN {"projectId"} ELSE {})
    \cup (IF Given(task_id) THEN {"taskId"} ELSE {})

\* TimeEntryManager.add_time_entry(start_time, end_time, description,
\* project_id, task_id) of the manager `manager`
add_time_entry(manager, service, start_time, end_time, description, project_id, task_id) ==
  IF ~Given(manager.workspace_id)
    THEN [sent |-> <<>>,
          out |-> Raise(Exc("ValueError", "workspace_id must be set before calling",
                            <<"add_time_entry">>))]
    ELSE ApiClientBase_request({"json", "response_type"}, service, "POST",
           <<"workspaces", manager.workspace_id, "time-entries">>,
           [k \in TimeEntryKeys(project_id, task_id) |->
              CASE k = "start" -> start_time
                [] k = "end" -> end_time
                [] k = "description" -> description
                [] k = "projectId" -> project_id
                [] k = "taskId" -> task_id],
           EmptyDict)

\* ------------------------------------------------------------------------
\* Clockify (src/clockify_sdk/client.py)
\* ------------------------------------------------------------------------

\* the attributes __init__ assigns: workspace_id, user_id, and the
\* time-entry manager, which is built from the connection alone
Instance(workspace_id, user_id) ==
  [workspace_id |-> workspace_id, user_id |-> user_id,
   time_entries |-> TimeEntryManager(None)]
NoInstance == Instance(None, "")
Instances == { Instance(w, u) : w \in WorkspaceIds \cup {None}, u \in UserIds }

NoCall == [op |-> "", self |-> NoInstance, args |-> <<>>, service |-> NoService]

\* raise ValueError(f"workspace_id must be set before calling {name}")
WorkspaceUnset(name) ==
  [sent |-> <<>>,
   out |-> Raise(Exc("ValueError", "workspace_id must be set before calling", <<name>>))]

\* Clockify.get_workspaces: self._connection.request("GET", f"{BASE_URL}/workspaces")
get_workspaces(service) ==
  [sent |-> <<Sent("GET", <<"workspaces">>, EmptyDict, EmptyDict)>>,
   out |-> ServiceAnswer(service, "GET", <<"workspaces">>, EmptyDict)]

\* Clockify(api_key, workspace_id): the managers are built first, the user
\* and the workspace are asked for after them
Clockify__init__(workspace_id, service) ==
  LET users == UserManager(service)
  IN IF users.raised # NoExc
       THEN [sent |-> users.sent, out |-> Raise(users.raised)]
     \* self.tasks = TaskManager(self._connection)
     ELSE IF MissingArgument(TaskManagerParameters, <<"self._connection">>)
       THEN [sent |-> users.sent,
             out |-> Raise(Exc("TypeError", "missing 1 required positional argument",
                               <<"workspace_id">>))]
     ELSE LET user == get_current_user(service)
          IN IF user.out.kind = "raise"
               THEN [sent |-> users.sent \o user.sent, out |-> user.out]
             ELSE IF Given(workspace_id)
               THEN [sent |-> users.sent \o user.sent,
                     out |-> Return(Instance(workspace_id, user.out.value.id))]
             ELSE LET workspaces == get_workspaces(service)
                  IN IF workspaces.out.kind = "raise"
                       THEN [sent |-> users.sent \o user.sent \o workspaces.sent,
                             out |-> workspaces.out]
                       ELSE [sent |-> users.sent \o user.sent \o workspaces.sent,
                             out |-> Return(Instance(
                                       IF workspaces.out.value # <<>>
                                         THEN workspaces.out.value[1].id
                                         ELSE None,
                                       user.out.value.id))]

Clockify(workspace_id, service) ==
  /\ pc = "idle"
  /\ pc' = "client_done"
  /\ client_call' = [op |-> "Clockify", self |-> NoInstance, args |-> <<workspace_id>>,
                     service |-> service]
  /\ LET r ==
         Clockify__init__(workspace_id, service)
     IN /\ client_sent' = r.sent
        /\ client_out' = r.out
  /\ UNCHANGED <<api_key, has_workspace_id, main_client, compliance_vars, reporter_vars,
                 report_vars, transport_vars>>

get_projects(self, service) ==
  /\ pc = "idle"
  /\ pc' = "client_done"
  /\ client_call' = [op |-> "get_projects", self |-> self, args |-> <<>>,
                     service |-> service]
  /\ LET r ==
         IF ~Given(self.workspace_id)
           THEN WorkspaceUnset("get_projects")
           ELSE ProjectManager_get_all(service, self.workspace_id)
     IN /\ client_sent' = r.sent
        /\ client_out' = r.out
  /\ UNCHANGED <<api_key, has_workspace_id, main_client, compliance_vars, reporter_vars,
                 report_vars, transport_vars>>

get_project(self, project_id, service) ==
  /\ pc = "idle"
  /\ pc' = "client_done"
  /\ client_call' = [op |-> "get_project", self |-> self, args |-> <<project_id>>,
                     service |-> service]
  /\ LET r ==
         IF ~Given(self.workspace_id)
           THEN WorkspaceUnset("get_project")
           ELSE get_by_id(service, self.workspace_id, project_id)
     IN /\ client_sent' = r.sent
        /\ client_out' = r.out
  /\ UNCHANGED <<api_key, has_workspace_id, main_client, compliance_vars, reporter_vars,
                 report_vars, transport_vars>>

\* self.tasks.get_all(...): TaskManager defines get_tasks, get_task, ..., no get_all
get_tasks(self, project_id, service) ==
  /\ pc = "idle"
  /\ pc' = "client_done"
  /\ client_call' = [op |-> "get_tasks", self |-> self, args |-> <<project_id>>,
                     service |-> service]
  /\ LET r ==
         IF ~Given(self.workspace_id)
           THEN WorkspaceUnset("get_tasks")
           ELSE [sent |-> <<>>,
                 out |-> Raise(Exc("AttributeError", "no attribute", <<"get_all">>))]
     IN /\ client_sent' = r.sent
        /\ client_out' = r.out
  /\ UNCHANGED <<api_key, has_workspace_id, main_client, compliance_vars, reporter_vars,
                 report_vars, transport_vars>>

get_time_entries(self, service) ==
  /\ pc = "idle"
  /\ pc' = "client_done"
  /\ client_call' = [op |-> "get_time_entries", self |-> self, args |-> <<>>,
                     service |-> service]
  /\ LET r ==
         IF ~Given(self.workspace_id)
           THEN WorkspaceUnset("get_time_entries")
           ELSE TimeEntryManager_get_all(service, self.workspace_id, self.user_id)
     IN /\ client_sent' = r.sent
        /\ client_out' = r.out
  /\ UNCHANGED <<api_key, has_workspace_id, main_client, compliance_vars, reporter_vars,
                 report_vars, transport_vars>>

\* start_time = now; end_time = start_time + 1 second; both sent as
\* isoformat() + "Z"
start_timer(self, description, project_id, task_id, service) ==
  /\ pc = "idle"
  /\ pc' = "client_done"
  /\ client_call' = [op |-> "start_timer", self |-> self, args |-> <<description, project_id, task_id>>,
                     service |-> service]
  /\ LET r ==
         IF ~Given(self.workspace_id)
           THEN WorkspaceUnset("start_timer")
           ELSE add_time_entry(self.time_entries, service, "now", "now + 1s",
                               description, project_id, task_id)
     IN /\ client_sent' = r.sent
        /\ client_out' = r.out
  /\ UNCHANGED <<api_key, has_workspace_id, main_client, compliance_vars, reporter_vars,
                 report_vars, transport_vars>>

\* entry.get("end")
EntryEnd(entry) == IF "end" \in DOMAIN entry THEN entry.end ELSE None

\* next((entry for entry in time_entries if entry.get("end") is None), None):
\* the position of that entry, 0 for None
RunningEntryAt(time_entries) ==
  LET running == { i \in 1..Len(time_entries) : EntryEnd(time_entries[i]) = None }
  IN IF running = {} THEN 0 ELSE CHOOSE i \in running : \A j \in running : i <= j

stop_timer(self, service) ==
  /\ pc = "idle"
  /\ pc' = "client_done"
  /\ client_call' = [op |-> "stop_timer", self |-> self, args |-> <<>>,
                     service |-> service]
  /\ LET r ==
         IF ~Given(self.workspace_id)
           THEN WorkspaceUnset("stop_timer")
           ELSE LET listed == TimeEntryManager_get_all(service, self.workspace_id, self.user_id)
                IN IF listed.out.kind = "raise"
                     THEN listed
                     ELSE LET at == RunningEntryAt(listed.out.value)
                          IN IF at = 0
                               THEN [sent |-> listed.sent,
                                     out |-> Raise(Exc("ValueError", "No running timer found",
                                                       <<>>))]
                               ELSE LET updated == update(service, self.workspace_id,
                                                          listed.out.value[at].id,
                                                          [k \in {"end"} |-> "now"])
                                    IN [sent |-> listed.sent \o updated.sent,
                                        out |-> updated.out]
     IN /\ client_sent' = r.sent
        /\ client_out' = r.out
  /\ UNCHANGED <<api_key, has_workspace_id, main_client, compliance_vars, reporter_vars,
                 report_vars, transport_vars>>

\* ------------------------------------------------------------------------
\* Clockify of src/main.py: every manager holds the workspace id
\* ------------------------------------------------------------------------

\* ClientManager(api_key, workspace_id)
ClientManager(key, workspace_id) == [api_key |-> key, workspace_id |-> workspace_id]

\* TaskManager(api_key, workspace_id)
TaskManager(key, workspace_id) == [api_key |-> key, workspace_id |-> workspace_id]

\* ProjectManager(api_key, workspace_id)
ProjectManager(key, workspace_id) == [api_key |-> key, workspace_id |-> workspace_id]

\* ReportManager(api_key, workspace_id)
ReportManager(key, workspace_id) == [api_key |-> key, workspace_id |-> workspace_id]

\* TimeEntryManager(api_key, workspace_id, user_id)
main_TimeEntryManager(key, workspace_id, user_id) ==
  [api_key |-> key, workspace_id |-> workspace_id, user_id |-> user_id]

\* Clockify(api_key, workspace_id) of src/main.py
main_Clockify(key, workspace_id, service) ==
  /\ pc = "idle"
  /\ pc' = "client_done"
  /\ client_call' = [op |-> "main.Clockify", self |-> NoInstance,
                     args |-> <<workspace_id>>, service |-> service]
  /\ LET created == UserManager(service)
         \* workspace_id or self.user_manager.workspace_id
         active == IF Given(workspace_id) THEN workspace_id ELSE created.workspace_id
         user_manager == UserManager_set_active_workspace(
                           [user_id |-> created.user_id,
                            workspace_id |-> created.workspace_id], active)
     IN /\ client_sent' = created.sent
        /\ IF created.raised # NoExc
             THEN /\ client_out' = Raise(created.raised)
                  /\ main_client' = main_client
             ELSE /\ client_out' = Return(active)
                  /\ main_client' =
                       << [workspace_id |-> active,
                           user_manager |-> user_manager,
                           time_entries |-> main_TimeEntryManager(key, active,
                                                                  user_manager.user_id),
                           projects |-> ProjectManager(key, active),
                           reports |-> ReportManager(key, active),
                           clients |-> ClientManager(key, active),
                           tasks |-> TaskManager(key, active)] >>
  /\ UNCHANGED <<api_key, has_workspace_id, compliance_vars, reporter_vars,
                 report_vars, transport_vars>>

\* variant: the task manager is left as it was
set_active_workspace_keeps_tasks(workspace_id) ==
  /\ pc = "idle"
  /\ main_client # <<>>
  /\ pc' = "client_done"
  /\ client_call' = [op |-> "set_active_workspace", self |-> NoInstance,
                     args |-> <<workspace_id>>, service |-> NoService]
  /\ client_sent' = <<>>
  /\ client_out' = Return(None)
  /\ LET self == main_client[1]
     IN main_client' =
          << [workspace_id |-> workspace_id,
              user_manager |-> UserManager_set_active_workspace(self.user_manager,
                                                                workspace_id),
              time_entries |-> main_TimeEntryManager(self.time_entries.api_key,
                                                     workspace_id,
                                                     self.user_manager.user_id),
              projects |-> ProjectManager(self.projects.api_key, workspace_id),
              reports |-> ReportManager(self.reports.api_key, workspace_id),
              clients |-> ClientManager(self.clients.api_key, workspace_id),
              tasks |-> self.tasks] >>
  /\ UNCHANGED <<api_key, has_workspace_id, compliance_vars, reporter_vars,
                 report_vars, transport_vars>>

\* Clockify.set_active_workspace(workspace_id) of src/main.py
set_active_workspace(workspace_id) ==
  /\ pc = "idle"
  /\ main_client # <<>>
  /\ pc' = "client_done"
  /\ client_call' = [op |-> "set_active_workspace", self |-> NoInstance,
                     args |-> <<workspace_id>>, service |-> NoService]
  /\ client_sent' = <<>>
  /\ client_out' = Return(None)
  /\ LET self == main_client[1]
     IN main_client' =
          << [workspace_id |-> workspace_id,
              user_manager |-> UserManager_set_active_workspace(self.user_manager,
                                                                workspace_id),
              time_entries |-> main_TimeEntryManager(self.time_entries.api_key,
                                                     workspace_id,
                                                     self.user_manager.user_id),
              projects |-> ProjectManager(self.projects.api_key, workspace_id),
              reports |-> ReportManager(self.reports.api_key, workspace_id),
              clients |-> ClientManager(self.clients.api_key, workspace_id),
              tasks |-> TaskManager(self.tasks.api_key, workspace_id)] >>
  /\ UNCHANGED <<api_key, has_workspace_id, compliance_vars, reporter_vars,
                 report_vars, transport_vars>>

\* the caller takes the result of the call on the client
ClientFinish ==
  /\ pc = "client_done"
  /\ pc' = "idle"
  /\ client_call' = NoCall
  /\ client_sent' = <<>>
  /\ client_out' = NoOutcome
  /\ UNCHANGED <<api_key, has_workspace_id, main_client, compliance_vars, reporter_vars,
                 report_vars, transport_vars>>

\* ------------------------------------------------------------------------
\* Specification
\* ------------------------------------------------------------------------
Init ==
  /\ pc = "idle"
  /\ api_key \in ApiKeys
  /\ has_workspace_id \in BOOLEAN
  /\ headers_arg = NoHeadersArg
  /\ req = NoRequest
  /\ retries_left = 0
  /\ attempts = 0
  /\ exchanges = 0
  /\ net_failures = 0
  /\ resp = NoResponse
  /\ outcome = NoOutcome
  /\ backend = NoBackend
  /\ page_size = 1
  /\ page = 1
  /\ all_time_entries = <<>>
  /\ page_requests = <<>>
  /\ fetch_errors = <<>>
  /\ report_bases = <<>>
  /\ report_outcome = NoOutcome
  /\ entry_arg = NoEntry
  /\ duration_out = NoDuration
  /\ analytics_out = NoDuration
  /\ entries_arg = <<>>
  /\ idx = 1
  /\ team_data = EmptyMap
  /\ group_out = NoDuration
  /\ minimum_hours_config = _load_minimum_hours_config(ConfigFile("absent", NoRecords))
  /\ compliance_args = NoComplianceArgs
  /\ compliance_out = NoCompliance
  /\ client_call = NoCall
  /\ client_sent = <<>>
  /\ client_out = NoOutcome
  /\ main_client = <<>>

Next ==
  \/ \E m \in Methods, u \in Urls, h \in HeaderArgs : request(m, u, h)
  \/ \E m \in Methods, p \in Paths : api_request(m, p)
  \/ \E b \in Backends : get_summary(b)
  \/ \E f \in ConnectFailures : ConnectFail(f)
  \/ \E f \in TransferFailures : TransferFail(f)
  \/ \E s \in Statuses, h \in ResponseHeaders, b \in Bodies : Respond(s, h, b)
  \/ \E P \in 1..MaxPageSize, b \in Backends : get_detailed_all_pages(P, b)
  \/ FetchPage
  \/ Finish

Spec == Init /\ [][Next]_vars

\* the example reporters, called on entries already fetched
ReporterNext ==
  \/ \E entry \in DurationEntries : calculate_duration(entry)
  \/ \E entries \in EntryLists : _process_weekly_data(entries)
  \/ \E entries \in EntryLists : _process_monthly_data(entries)
  \/ GroupEntry
  \/ ReporterFinish

ReporterSpec == Init /\ [][ReporterNext]_vars

\* the compliance check of the example reporter
ComplianceNext ==
  \/ \E file \in ConfigFiles : ProjectDetailReporter(file)
  \/ \E u \in Users, t \in TotalSeconds, d \in PeriodDays : _check_hours_compliance(u, t, d)
  \/ ComplianceFinish

ComplianceSpec == Init /\ [][ComplianceNext]_vars

\* the client: its construction and its operations
ClientNext ==
  \/ \E w \in WorkspaceArgs, s \in Services : Clockify(w, s)
  \/ \E self \in Instances, s \in Services : get_projects(self, s)
  \/ \E self \in Instances, s \in Services : get_project(self, "p1", s)
  \/ \E self \in Instances, s \in Services : get_tasks(self, "p1", s)
  \/ \E self \in Instances, s \in Services : get_time_entries(self, s)
  \/ \E self \in Instances, d \in Descriptions, p \in ProjectArgs, t \in TaskArgs,
        s \in Services : start_timer(self, d, p, t, s)
  \/ \E self \in Instances, s \in Services : stop_timer(self, s)
  \/ \E w \in WorkspaceArgs, s \in Services : main_Clockify(api_key, w, s)
  \/ \E w \in WorkspaceIds : set_active_workspace(w)
  \/ ClientFinish

ClientSpec == Init /\ [][ClientNext]_vars

\* ------------------------------------------------------------------------
\* What the pagination contract expects of a backend
\* ------------------------------------------------------------------------

\* index of the first page that is empty or holds fewer than P entries
FirstShortPage(b, P) ==
  CHOOSE k \in 1..(b.n + 1) :
    /\ Len(BackendPage(b, k, P)) < P
    /\ \A j \in 1..(k - 1) : Len(BackendPage(b, j, P)) >= P

\* the entries of pages 1..k, in page order
RECURSIVE ConcatPages(_, _, _)
ConcatPages(b, P, k) ==
  IF k = 0 THEN <<>> ELSE ConcatPages(b, P, k - 1) \o BackendPage(b, k, P)

\* the backend serves every page the loop would ask for
NeverFails(b, P) == b.fail_at = 0 \/ b.fail_at > FirstShortPage(b, P)

OneToN(n) == [i \in 1..n |-> i]

AllPagesDone == pc = "all_pages_done"

\* the call failed while fetching page 1
FirstPageFailed ==
  /\ AllPagesDone
  /\ fetch_errors # <<>>
  /\ fetch_errors[1].page = 1

\* ------------------------------------------------------------------------
\* Claims on get_detailed_all_pages
\* ------------------------------------------------------------------------

\* C1: for any page size P >= 1 the pages 1, 2, 3, ... are requested in
\* increasing order without gaps up to and including the first page that is
\* empty or shorter than P, and no further request is issued.
C1_RequestsUpToFirstShortPage ==
  (AllPagesDone /\ NeverFails(backend, page_size))
    => page_requests = OneToN(FirstShortPage(backend, page_size))

\* C2: when no page fetch fails, the returned list is the concatenation, in
\* page order, of every page up to and including the short final page.
C2_ResultIsConcatenationOfPages ==
  (AllPagesDone /\ NeverFails(backend, page_size))
    => report_outcome =
         Return(ConcatPages(backend, page_size, FirstShortPage(backend, page_size)))

C4_PartialResultOnLaterFailure ==
  (/\ AllPagesDone
   /\ backend.fail_at > 1
   /\ backend.fail_at <= FirstShortPage(backend, page_size))
    => /\ report_outcome =
            Return(ConcatPages(backend, page_size, backend.fail_at - 1))
       /\ page_requests = OneToN(backend.fail_at)

\* C5: get_detailed_all_pages returns every time entry of the date range,
\* for any page_size, also when the backend holds more than one page and
\* when it caps the page length below page_size.
C5_ReturnsEveryEntry ==
  (AllPagesDone /\ backend.fail_at = 0)
    => report_outcome = Return(Dataset(backend.n))

\* ------------------------------------------------------------------------
\* Claims on ConnectionManager.request
\* ------------------------------------------------------------------------

RequestDone == pc = "request_done"

\* the call ended with a response (not with a network failure)
EndedWithResponse == RequestDone /\ net_failures < attempts

\* the call ended because every attempt failed at network level
EveryAttemptFailed == RequestDone /\ net_failures = attempts

ExpectedErrorType(status) ==
  CASE status \in {401, 403} -> "AuthenticationError"
    [] status = 404 -> "ResourceNotFoundError"
    [] status = 429 -> "RateLimitError"
    [] OTHER -> "APIError"

IsNumber(text) == text # <<>> /\ \A i \in 1..Len(text) : text[i] \in Digits

DigitValue(c) ==
  CASE c = "0" -> 0 [] c = "1" -> 1 [] c = "2" -> 2 [] c = "3" -> 3 [] c = "4" -> 4
    [] c = "5" -> 5 [] c = "6" -> 6 [] c = "7" -> 7 [] c = "8" -> 8 [] c = "9" -> 9

RECURSIVE ParseNumber(_)
ParseNumber(text) ==
  IF text = <<>> THEN 0
  ELSE 10 * ParseNumber(SubSeq(text, 1, Len(text) - 1)) + DigitValue(text[Len(text)])

\* the retry-after duration the error should carry for a response
ExpectedRetryAfter(response) ==
  IF "Retry-After" \in DOMAIN response.headers /\ IsNumber(response.headers["Retry-After"])
    THEN ParseNumber(response.headers["Retry-After"])
    ELSE 60

\* the number of seconds an error carries: the numeral put into it, if any
CarriedSeconds(e) ==
  IF IsNumber(e.message.arg) THEN ParseNumber(e.message.arg) ELSE -1

\* C7: on a 429 the RateLimitError carries the retry-after duration: the
\* number of the Retry-After header (30 for "30"), and 60 when the header
\* is missing or is not a number.
C7_RateLimitCarriesRetryAfter ==
  (EndedWithResponse /\ resp.status = 429)
    => /\ outcome.exc.type = "RateLimitError"
       /\ CarriedSeconds(outcome.exc) = ExpectedRetryAfter(resp)

C9_NoRetryOnErrorStatus ==
  (pc \in {"request", "request_done"} /\ resp.status >= 400)
    => /\ RequestDone
       /\ exchanges = 1
       /\ outcome.kind = "raise"

C9_Witness ==
  /\ RequestDone
  /\ resp.status = 503
  /\ attempts > 1
  /\ exchanges = 1
  /\ outcome.exc.type = "APIError"

\* C10: every request handed to the HTTP client carries X-Api-Key equal to
\* the key the manager was constructed with, whatever headers the caller
\* passed; a caller-supplied X-Api-Key is overridden.
C10_ApiKeyHeaderOnEveryRequest ==
  pc \in {"request", "request_done"}
    => /\ "X-Api-Key" \in DOMAIN req.headers
       /\ req.headers["X-Api-Key"] = api_key

C10_Witness ==
  /\ pc = "request"
  /\ ~headers_arg.none
  /\ "X-Api-Key" \in DOMAIN headers_arg.dict
  /\ headers_arg.dict["X-Api-Key"] # api_key
  /\ req.headers["X-Api-Key"] = api_key
  /\ "Accept" \in DOMAIN req.headers

\* ------------------------------------------------------------------------
\* Claims on the base endpoint of a request
\* ------------------------------------------------------------------------

ReportCallDone == pc \in {"all_pages_done", "summary_done"}

CoreUrls == { CoreUrl(p) : p \in Paths }

\* C11: a report call (get_summary, get_detailed) sends its request to the
\* reporting base endpoint and does not fail before a request is sent; the
\* requests of the other managers go to the core base endpoint.
C11_ReportCallsUseReportsEndpoint ==
  /\ ReportCallDone
       => /\ report_bases # <<>>
          /\ \A i \in 1..Len(report_bases) : report_bases[i] = "Config.REPORTS_URL"
  /\ (pc \in {"request", "request_done"} /\ headers_arg = NoHeadersArg)
       => req.url \in CoreUrls

\* ------------------------------------------------------------------------
\* Claims on the duration of one entry
\* ------------------------------------------------------------------------

DurationDone == pc = "duration_done"

\* both reporters gave this outcome
BothGave(out) == duration_out = out /\ analytics_out = out

\* what a timestamp says, read by hand
ZoneOffset(suffix) == IF suffix = "+02:00" THEN 2 * HourMs ELSE 0
Instant(ts) == ts.wall - ZoneOffset(ts.suffix)
WellFormed(ts) == ts.kind = "iso" /\ ts.suffix # ""
Malformed(ts) == ts.kind \in {"garbage", "int"}
WholeSeconds(ms) == IF ms >= 0 THEN ms \div 1000 ELSE -((-ms) \div 1000)

\* C12: an entry that carries an explicit duration d, zero included and
\* whether or not it also carries start and end, has duration d.
C12_ExplicitDurationReturned ==
  (DurationDone /\ entry_arg.duration # NoNum)
    => BothGave(DReturn(entry_arg.duration))

\* C13: an entry without explicit duration has duration 0 when start or end
\* is missing, and otherwise end - start in whole seconds (the fraction is
\* dropped) when both are timestamps with a zone.
C13_DurationFromInterval ==
  (DurationDone /\ entry_arg.duration = NoNum)
    => /\ (~Present(entry_arg.start) \/ ~Present(entry_arg.end))
            => BothGave(DReturn(PyInt(0)))
       /\ (WellFormed(entry_arg.start) /\ WellFormed(entry_arg.end))
            => BothGave(DReturn(PyInt(WholeSeconds(Instant(entry_arg.end)
                                                   - Instant(entry_arg.start)))))

C13_Witness ==
  /\ DurationDone
  /\ entry_arg.duration = NoNum
  /\ entry_arg.start = Iso(9 * HourMs + 500, "Z")
  /\ entry_arg.end = Iso(13 * HourMs, "+02:00")
  /\ BothGave(DReturn(PyInt(7199)))

\* C14: an entry without explicit duration whose start or end is malformed
\* (a text that is no timestamp, or a value that is no text) has duration 0,
\* and asking for it never raises.
C14_MalformedTimestampGivesZero ==
  (/\ DurationDone
   /\ entry_arg.duration = NoNum
   /\ (Malformed(entry_arg.start) \/ Malformed(entry_arg.end)))
    => BothGave(DReturn(PyInt(0)))

\* C15: the duration of an entry is always a non-negative integer, also when
\* end lies before start or the explicit duration is negative or no integer.
C15_DurationIsNonNegativeInteger ==
  DurationDone
    => /\ duration_out.kind = "return" /\ analytics_out.kind = "return"
       /\ duration_out.value.type = "int" /\ analytics_out.value.type = "int"
       /\ duration_out.value.ms >= 0 /\ analytics_out.value.ms >= 0

\* ------------------------------------------------------------------------
\* Claims on the grouping
\* ------------------------------------------------------------------------

GroupDone == pc \in {"weekly_done", "monthly_done"}
GroupReturned == GroupDone /\ group_out.kind = "return"
GroupMode == IF pc = "weekly_done" THEN "weekly" ELSE "monthly"

\* the whole loop over a sequence, up to its first raise
RECURSIVE GroupFold(_, _, _, _)
GroupFold(mode, td, entries, i) ==
  IF i > Len(entries)
    THEN Stepped(td, "")
    ELSE LET r == IF mode = "weekly"
                    THEN _process_weekly_entry(td, entries[i])
                    ELSE _process_monthly_entry(td, entries[i])
         IN IF r.exc # "" THEN r ELSE GroupFold(mode, r.team_data, entries, i + 1)

Grouped(mode, entries) == GroupFold(mode, EmptyMap, entries, 1)

\* the other spelling of UTC
Respell(ts) ==
  IF ts.kind = "iso" /\ ts.suffix = "Z" THEN [ts EXCEPT !.suffix = "+00:00"]
  ELSE IF ts.kind = "iso" /\ ts.suffix = "+00:00" THEN [ts EXCEPT !.suffix = "Z"]
  ELSE ts

Spellings(ts) == {ts, Respell(ts)}

RespelledLists(entries) ==
  { [i \in 1..Len(entries) |->
       [entries[i] EXCEPT !.start = IF f[i].start THEN Respell(@) ELSE @,
                          !.end = IF f[i].end THEN Respell(@) ELSE @]] :
    f \in [1..Len(entries) -> [start : BOOLEAN, end : BOOLEAN]] }

\* C16: writing a UTC timestamp with Z or with +00:00 is the same: replacing
\* one spelling by the other in start and/or end changes neither the duration
\* of an entry nor the weekday and week buckets it is grouped into.
C16_UtcSpellingIrrelevant ==
  /\ DurationDone
       => \A s \in Spellings(entry_arg.start), e \in Spellings(entry_arg.end) :
            LET other == [entry_arg EXCEPT !.start = s, !.end = e]
            IN /\ _calculate_duration(other) = duration_out
               /\ analytics_calculate_duration(other) = analytics_out
  /\ GroupDone
       => \A others \in RespelledLists(entries_arg) :
            Grouped(GroupMode, others) = Stepped(team_data, group_out.exc)

C16_Witness ==
  /\ DurationDone
  /\ entry_arg.duration = NoNum
  /\ entry_arg.start = Iso(9 * HourMs, "Z")
  /\ entry_arg.end = Iso(11 * HourMs, "+00:00")
  /\ BothGave(DReturn(PyInt(7200)))

\* sums, in thousandths of a second
RECURSIVE SumDurations(_, _)
SumDurations(entries, I) ==
  IF I = {}
    THEN 0
    ELSE LET i == CHOOSE j \in I : TRUE
         IN _calculate_duration(entries[i]).value.ms + SumDurations(entries, I \ {i})

RECURSIVE SumValues(_, _)
SumValues(map, K) ==
  IF K = {}
    THEN 0
    ELSE LET k == CHOOSE j \in K : TRUE
         IN map[k].ms + SumValues(map, K \ {k})

MapSum(map) == SumValues(map, DOMAIN map)
TotalsOf(td) == [u \in DOMAIN td |-> td[u].total_seconds]

EntriesOf(user_id) == { i \in 1..Len(entries_arg) : entries_arg[i].userId = user_id }
WithUser == { i \in 1..Len(entries_arg) : entries_arg[i].userId # "" }
WithStart(user_id) == { i \in EntriesOf(user_id) : Present(entries_arg[i].start) }
WithTask(user_id) == { i \in EntriesOf(user_id) : entries_arg[i].taskId # "" }

\* C17: when a grouping returns, the per-user totals add up to the durations
\* of the entries that have a user (each user's total is the sum over that
\* user's entries), and entries without a user are in no bucket.
C17_TotalsConserveDurations ==
  GroupReturned
    => /\ MapSum(TotalsOf(team_data)) = SumDurations(entries_arg, WithUser)
       /\ DOMAIN team_data = { entries_arg[i].userId : i \in WithUser }
       /\ \A u \in DOMAIN team_data :
            team_data[u].total_seconds.ms = SumDurations(entries_arg, EntriesOf(u))
       /\ team_data = Grouped(GroupMode, SelectSeq(entries_arg, LAMBDA e : e.userId # "")).team_data

C17_Witness ==
  /\ GroupReturned
  /\ entries_arg =
       << Entry("u1", NoNum, Iso(9 * HourMs, "Z"), Iso(11 * HourMs, "Z"), "", TRUE),
          Entry("", PyInt(300), Iso(9 * HourMs, "Z"), NoTimestamp, "design01-a", TRUE),
          Entry("u1", PyInt(1800), NoTimestamp, NoTimestamp, "", FALSE) >>
  /\ DOMAIN team_data = {"u1"}
  /\ team_data["u1"].total_seconds = PyInt(9000)

\* C18 as stated: in every user bucket the per-week values, and the per-day
\* values, add up to the user's total seconds.
C18_BucketsSumToTotal ==
  GroupReturned
    => \A u \in DOMAIN team_data :
         IF pc = "weekly_done"
           THEN MapSum(team_data[u].daily_hours) = team_data[u].total_seconds.ms
           ELSE MapSum(team_data[u].weekly_totals) = team_data[u].total_seconds.ms

\* C18: in every user bucket the per-week values, and the per-day values, add
\* up to the durations of the user's entries that carry a start timestamp;
\* that is the user's total when every entry of the user carries one.
C18_BucketsSumToStartedDurations ==
  GroupReturned
    => \A u \in DOMAIN team_data :
         LET buckets == IF pc = "weekly_done"
                          THEN team_data[u].daily_hours
                          ELSE team_data[u].weekly_totals
         IN /\ MapSum(buckets) = SumDurations(entries_arg, WithStart(u))
            /\ WithStart(u) = EntriesOf(u)
                 => MapSum(buckets) = team_data[u].total_seconds.ms

C18_Witness ==
  /\ pc = "monthly_done"
  /\ GroupReturned
  /\ "u1" \in DOMAIN team_data
  /\ WithStart("u1") # EntriesOf("u1")
  /\ team_data["u1"].weekly_totals = [k \in {"2024-03-18"} |-> PyInt(8400)]
  /\ team_data["u1"].total_seconds = PyInt(10200)

\* C19 as stated: in every user bucket the values of the task mapping add up
\* to the user's total seconds.
C19_TasksSumToTotal ==
  (GroupReturned /\ pc = "weekly_done")
    => \A u \in DOMAIN team_data :
         MapSum(team_data[u].tasks) = team_data[u].total_seconds.ms

\* C19: in every user bucket the values of the task mapping add up to the
\* durations of the user's entries that carry a task; that is the user's
\* total when every entry of the user carries one.
C19_TasksSumToTaskedDurations ==
  (GroupReturned /\ pc = "weekly_done")
    => \A u \in DOMAIN team_data :
         /\ MapSum(team_data[u].tasks) = SumDurations(entries_arg, WithTask(u))
         /\ WithTask(u) = EntriesOf(u)
              => MapSum(team_data[u].tasks) = team_data[u].total_seconds.ms

C19_Witness ==
  /\ pc = "weekly_done"
  /\ GroupReturned
  /\ "u1" \in DOMAIN team_data
  /\ WithTask("u1") # EntriesOf("u1")
  /\ team_data["u1"].tasks = [k \in {"Task design01"} |-> PyInt(1800)]
  /\ team_data["u1"].total_seconds = PyInt(3600)

Orders(n) == { p \in [1..n -> 1..n] : \A i, j \in 1..n : p[i] = p[j] => i = j }

\* C20: grouping does not depend on the order of the entries: every
\* permutation of the sequence ends the same way, and when the grouping
\* returns, with the same buckets.
C20_OrderIndependent ==
  GroupDone
    => \A p \in Orders(Len(entries_arg)) :
         LET other == Grouped(GroupMode, [i \in 1..Len(entries_arg) |-> entries_arg[p[i]]])
         IN /\ other.exc = group_out.exc
            /\ GroupReturned => other.team_data = team_data

C20_Witness ==
  /\ pc = "weekly_done"
  /\ GroupReturned
  /\ entries_arg =
       << Entry("u1", NoNum, Iso(9 * HourMs, "Z"), Iso(11 * HourMs, "Z"), "", TRUE),
          Entry("u1", PyInt(600), Iso(9 * HourMs, "+00:00"), NoTimestamp, "design01-a", TRUE),
          Entry("u1", PyInt(1800), NoTimestamp, NoTimestamp, "", FALSE) >>
  /\ team_data["u1"].daily_hours = [k \in {"Monday"} |-> PyInt(7800)]

\* an entry of a user whose start is there and is no timestamp
HasMalformedStart ==
  \E i \in WithUser : Malformed(entries_arg[i].start)

\* C21: grouping a sequence that contains an entry with a malformed start
\* never raises: the report is produced, and the totals count that entry
\* with the duration _calculate_duration gives it (zero without an explicit
\* duration).
C21_MalformedStartNeverRaises ==
  (GroupDone /\ HasMalformedStart)
    => /\ group_out.kind = "return"
       /\ \A u \in DOMAIN team_data :
            team_data[u].total_seconds.ms = SumDurations(entries_arg, EntriesOf(u))

\* ------------------------------------------------------------------------
\* Claims on the compliance check
\* ------------------------------------------------------------------------

ComplianceDone == pc = "compliance_done"
ConfiguredRecord ==
  /\ minimum_hours_config.kind = "dict"
  /\ compliance_args.user_id \in DOMAIN minimum_hours_config.items
  /\ minimum_hours_config.items[compliance_args.user_id].kind = "dict"
ConfiguredMinimum == minimum_hours_config.items[compliance_args.user_id].minimum

\* actualHours >= m * D / 7 in exact arithmetic, hours being seconds / 3600
MeetsMinimum(m) ==
  7 * compliance_args.total_seconds >= 3600 * m * compliance_args.days

\* C22: for a user with a configured weekly minimum m > 0 and a period of D
\* days the check says compliant exactly when actualHours >= m * D / 7, the
\* boundary included, and gives the red-flag prefix exactly when not.
C22_CompliantIffThresholdMet ==
  (/\ ComplianceDone /\ ConfiguredRecord
   /\ ConfiguredMinimum.type = "int" /\ ConfiguredMinimum.n > 0)
    => /\ compliance_out.kind = "return"
       /\ compliance_out.is_compliant <=> MeetsMinimum(ConfiguredMinimum.n)
       /\ compliance_out.display_prefix = RedFlag <=> ~compliance_out.is_compliant

\* C23: a user without entry in the policy, or with a configured weekly
\* minimum <= 0 (or a record that names none), is compliant and unflagged for
\* all hours and periods.
C23_NoRequirementIsCompliant ==
  (/\ ComplianceDone
   /\ \/ compliance_args.user_id \notin DOMAIN minimum_hours_config.items
      \/ /\ ConfiguredRecord
         /\ \/ ConfiguredMinimum.type = "absent"
            \/ ConfiguredMinimum.type = "int" /\ ConfiguredMinimum.n <= 0)
    => compliance_out = CReturn(TRUE, "")

C23_Witness ==
  /\ ComplianceDone
  /\ ConfiguredRecord
  /\ ConfiguredMinimum = MinimumInt(0)
  /\ compliance_args.total_seconds = 0
  /\ compliance_out = CReturn(TRUE, "")

\* C24: the compliance check never raises, whatever was loaded; a
\* configuration that is absent or malformed (no file, no JSON, no mapping,
\* a user record without a numeric minimum) makes every user compliant.
C24_ComplianceNeverRaises ==
  ComplianceDone
    => /\ compliance_out.kind = "return"
       /\ (\/ minimum_hours_config.kind # "dict"
           \/ \E u \in DOMAIN minimum_hours_config.items :
                \/ minimum_hours_config.items[u].kind # "dict"
                \/ minimum_hours_config.items[u].minimum.type \notin {"int", "absent"})
            => compliance_out = CReturn(TRUE, "")

\* ------------------------------------------------------------------------
\* Claims on the length of the pagination loop
\* ------------------------------------------------------------------------

InAllPages == pc \in {"all_pages", "all_pages_done"}

\* the backend serves its N entries in consecutive pages of page_size entries
ServesFullPages == backend.cap >= page_size

ClientDone == pc = "client_done"
Called(op) == ClientDone /\ client_call.op = op
ServiceUp == ~client_call.service.down
WorkspaceSet == Given(client_call.self.workspace_id)

\* the workspace-unset error of the client and of its time-entry manager
RaisedWorkspaceUnset ==
  /\ client_out.kind = "raise"
  /\ client_out.exc.type = "ValueError"
  /\ client_out.exc.message.text = "workspace_id must be set before calling"

\* C25: after constructing the client with an API key, its user id is the
\* id of the current user the service returns; its workspace id is the
\* given one, or without one the id of the first workspace the service
\* returns, None when it returns none.
C25_ConstructedFromService ==
  (Called("Clockify") /\ ServiceUp)
    => /\ client_out.kind = "return"
       /\ client_out.value.user_id = client_call.service.user
       /\ client_out.value.workspace_id =
            IF Given(client_call.args[1])
              THEN client_call.args[1]
              ELSE IF client_call.service.workspaces # <<>>
                     THEN client_call.service.workspaces[1]
                     ELSE None

\* C26: with the workspace set, start_timer(description, project_id,
\* task_id) sends exactly one request, a POST to
\* workspaces/{workspace}/time-entries whose body holds start, description,
\* projectId and taskId and no end, and returns the time entry the service
\* answers with.
C26_StartTimerPostsOpenEntry ==
  (/\ Called("start_timer") /\ ServiceUp /\ WorkspaceSet
   /\ Given(client_call.args[2]) /\ Given(client_call.args[3]))
    => /\ Len(client_sent) = 1
       /\ client_sent[1].method = "POST"
       /\ client_sent[1].path =
            <<"workspaces", client_call.self.workspace_id, "time-entries">>
       /\ DOMAIN client_sent[1].json = {"start", "description", "projectId", "taskId"}
       /\ client_out = Return(WrittenEntry(client_sent[1].path, client_sent[1].json))

\* the service lists a running time entry
TimerRunning ==
  \E i \in 1..Len(client_call.service.entries) :
    /\ "timeInterval" \in DOMAIN client_call.service.entries[i]
    /\ client_call.service.entries[i].timeInterval.end = None

\* C27: stop_timer, with the workspace set and a timer running, sends a
\* PATCH to workspaces/{workspace}/user/{user}/time-entries whose body holds
\* only end, and returns the stopped entry, which has an end in its time
\* interval.
C27_StopTimerPatchesUserEntries ==
  (Called("stop_timer") /\ ServiceUp /\ WorkspaceSet /\ TimerRunning)
    => /\ \E i \in 1..Len(client_sent) :
            /\ client_sent[i].method = "PATCH"
            /\ client_sent[i].path =
                 <<"workspaces", client_call.self.workspace_id,
                   "user", client_call.self.user_id, "time-entries">>
            /\ DOMAIN client_sent[i].json = {"end"}
       /\ client_out.kind = "return"
       /\ client_out.value.timeInterval.end # None

\* the workspace ids held by the managers of the client of src/main.py
ManagerWorkspaces(client) ==
  { client.user_manager.workspace_id, client.time_entries.workspace_id,
    client.projects.workspace_id, client.reports.workspace_id,
    client.clients.workspace_id, client.tasks.workspace_id }

\* C28: after any sequence of set_active_workspace calls the client, the
\* user manager and the time-entry, project, report, client and task
\* managers all hold the id of the most recent call; no manager holds an
\* earlier workspace.
C28_ManagersFollowActiveWorkspace ==
  main_client # <<>>
    => /\ ManagerWorkspaces(main_client[1]) = {main_client[1].workspace_id}
       /\ Called("set_active_workspace")
            => main_client[1].workspace_id = client_call.args[1]

C28_Witness ==
  /\ Called("set_active_workspace")
  /\ client_call.args[1] = "ws2"
  /\ main_client # <<>>
  /\ ManagerWorkspaces(main_client[1]) = {"ws2"}
  /\ main_client[1].time_entries.user_id = "u1"

GuardedOperations ==
  {"get_projects", "get_project", "get_tasks", "get_time_entries",
   "start_timer", "stop_timer"}

\* C30: while the workspace id of the client is None, get_projects,
\* get_project, get_tasks, get_time_entries, start_timer and stop_timer
\* raise the workspace-unset ValueError and send no request; while it is
\* set, none of them raises that ValueError.
C30_ValueErrorIffWorkspaceUnset ==
  (ClientDone /\ client_call.op \in GuardedOperations)
    => IF WorkspaceSet
         THEN ~RaisedWorkspaceUnset
         ELSE RaisedWorkspaceUnset /\ client_sent = <<>>

====
